---- MODULE Spec2Model ----
(***************************************************************************)
(* HA Voice plugin (src/main.ts): an HTTP endpoint that turns free-text    *)
(* commands into operations on the notes of an Obsidian vault.             *)
(*                                                                         *)
(* Strings are sequences of one-character strings, so that toLowerCase,    *)
(* trim, startsWith, substring, includes, join, the append regular         *)
(* expression and JSON.stringify are computed character by character.      *)
(***************************************************************************)
EXTENDS Integers, Sequences, FiniteSets, TLC

\* ------------------------------------------------------------------ bounds

\* Most files the vault holds; a create request that would exceed it is not sent.
MaxFiles == 2

\* Longest note content; an append request that would exceed it is not sent.
MaxData == 3

\* Most requests the server handles at the same time.
MaxHandlers == 3

\* ----------------------------------------------------------- JS strings

UpperLetters == <<"A", "B", "C", "D", "E", "F", "G", "H", "I", "J", "K", "L", "M",
                  "N", "O", "P", "Q", "R", "S", "T", "U", "V", "W", "X", "Y", "Z">>

LowerLetters == <<"a", "b", "c", "d", "e", "f", "g", "h", "i", "j", "k", "l", "m",
                  "n", "o", "p", "q", "r", "s", "t", "u", "v", "w", "x", "y", "z">>

\* String.prototype.toLowerCase on one character.
toLowerChar(c) ==
    IF \E i \in 1..26 : UpperLetters[i] = c
    THEN LowerLetters[CHOOSE i \in 1..26 : UpperLetters[i] = c]
    ELSE c

\* String.prototype.toLowerCase.
toLowerCase(s) == [i \in 1..Len(s) |-> toLowerChar(s[i])]

\* The characters String.prototype.trim removes and the regex class \s matches.
WhiteSpace == {" ", "\t", "\n", "\r"}

\* The characters the regex atom . does not match (no s flag).
LineTerminators == {"\n", "\r"}

\* Number of leading white space characters of s.
RECURSIVE leadingSpaces(_)
leadingSpaces(s) ==
    IF s # <<>> /\ Head(s) \in WhiteSpace THEN 1 + leadingSpaces(Tail(s)) ELSE 0

\* Number of trailing white space characters of s.
RECURSIVE trailingSpaces(_)
trailingSpaces(s) ==
    IF s # <<>> /\ s[Len(s)] \in WhiteSpace
    THEN 1 + trailingSpaces(SubSeq(s, 1, Len(s) - 1))
    ELSE 0

\* String.prototype.trim.
trim(s) ==
    IF leadingSpaces(s) = Len(s) THEN <<>>
    ELSE SubSeq(s, leadingSpaces(s) + 1, Len(s) - trailingSpaces(s))

\* String.prototype.startsWith.
startsWith(s, p) == Len(s) >= Len(p) /\ SubSeq(s, 1, Len(p)) = p

\* String.prototype.substring(start): the characters from 0-based index start on.
substring(s, start) == IF start >= Len(s) THEN <<>> ELSE SubSeq(s, start + 1, Len(s))

\* String.prototype.includes.
includes(s, t) ==
    \E i \in 0..Len(s) : i + Len(t) <= Len(s) /\ SubSeq(s, i + 1, i + Len(t)) = t

\* Array.prototype.join over an array of strings.
RECURSIVE join(_, _)
join(arr, sep) ==
    IF arr = <<>> THEN <<>>
    ELSE IF Len(arr) = 1 THEN arr[1]
    ELSE arr[1] \o sep \o join(Tail(arr), sep)

\* ------------------------------------------------------- string literals

CreateNotePrefix == <<"c", "r", "e", "a", "t", "e", " ", "n", "o", "t", "e", " ">>

AppendToPrefix == <<"a", "p", "p", "e", "n", "d", " ", "t", "o", " ">>

ReadNotePrefix == <<"r", "e", "a", "d", " ", "n", "o", "t", "e", " ">>

ListNotesText == <<"l", "i", "s", "t", " ", "n", "o", "t", "e", "s">>

SearchForPrefix == <<"s", "e", "a", "r", "c", "h", " ", "f", "o", "r", " ">>

CreatedNoteMsg == <<"c", "r", "e", "a", "t", "e", "d", " ", "n", "o", "t", "e", " ">>

AppendedToMsg == <<"a", "p", "p", "e", "n", "d", "e", "d", " ", "t", "o", " ">>

NoteNotFoundMsg == <<"n", "o", "t", "e", " ", "n", "o", "t", " ", "f", "o", "u", "n", "d">>

UnknownCommandMsg == <<"u", "n", "k", "n", "o", "w", "n", " ",
                       "c", "o", "m", "m", "a", "n", "d">>

CommaSpace == <<",", " ">>

DotMd == <<".", "m", "d">>

NewLine == <<"\n">>

\* ------------------------------------- the append regular expression

\* Mutant of dotPlus: the dot matches line terminators too (the s flag).
dotPlusAll(s) == s # <<>>

\* The regex (.+): one or more characters, none a line terminator.
dotPlus(s) == s # <<>> /\ \A i \in 1..Len(s) : s[i] \notin LineTerminators

\* :\s*(.+)$ against rest (what follows the colon), \s* taking j characters:
\* the j characters are white space and a non-empty rest without line
\* terminators runs to the end of the input ($ without the m flag).
tailMatches(rest, j) ==
    /\ j < Len(rest)
    /\ \A i \in 1..j : rest[i] \in WhiteSpace
    /\ dotPlus(SubSeq(rest, j + 1, Len(rest)))

\* The lengths k of (.+?) for which /^append to (.+?):\s*(.+)$/i matches text.
fileLengths(text) ==
    LET p == Len(AppendToPrefix) IN
    IF ~(Len(text) > p /\ toLowerCase(SubSeq(text, 1, p)) = AppendToPrefix) THEN {}
    ELSE { k \in 1..(Len(text) - p - 1) :
             /\ dotPlus(SubSeq(text, p + 1, p + k))
             /\ text[p + k + 1] = ":"
             /\ \E j \in 0..Len(text) : tailMatches(substring(text, p + k + 1), j) }

\* text.match(/^append to (.+?):\s*(.+)$/i): null, or the two captured groups.
\* (.+?) is lazy: the shortest file for which the rest matches; \s* is greedy:
\* the longest run of white space that leaves (.+) a match.
appendMatch(text) ==
    LET p  == Len(AppendToPrefix)
        ks == fileLengths(text)
    IN  IF ks = {} THEN [matched |-> FALSE, file |-> <<>>, content |-> <<>>]
        ELSE LET k    == CHOOSE x \in ks : \A y \in ks : x <= y
                 rest == substring(text, p + k + 1)
                 js   == { j \in 0..Len(rest) : tailMatches(rest, j) }
                 j    == CHOOSE x \in js : \A y \in js : y <= x
             IN  [matched |-> TRUE,
                  file    |-> SubSeq(text, p + 1, p + k),
                  content |-> SubSeq(rest, j + 1, Len(rest))]

\* ------------------------------------------------------------ the vault
\* The vault is the array getMarkdownFiles enumerates: a sequence of files,
\* each [path, data]; folders is the set of folder paths that exist, the root
\* being the empty path.

\* String.prototype.lastIndexOf, 1-based (0: absent).
lastIndexOf(s, c) ==
    IF \E i \in 1..Len(s) : s[i] = c
    THEN CHOOSE i \in 1..Len(s) : s[i] = c /\ \A j \in (i + 1)..Len(s) : s[j] # c
    ELSE 0

\* TAbstractFile.name: the path after its last slash.
fileName(path) == substring(path, lastIndexOf(path, "/"))

\* The folder a path lies in (the root is the empty path).
parentPath(path) ==
    IF lastIndexOf(path, "/") = 0 THEN <<>>
    ELSE SubSeq(path, 1, lastIndexOf(path, "/") - 1)

\* The extension of a path: what follows the last dot of its name.
extensionOf(path) ==
    LET name == fileName(path)
        dot  == lastIndexOf(name, ".")
    IN  IF dot = 0 \/ dot = 1 \/ dot = Len(name) THEN <<>>
        ELSE toLowerCase(substring(name, dot))

\* The basename of a path: its name without the extension.
basenameOf(path) ==
    LET name == fileName(path)
        dot  == lastIndexOf(name, ".")
    IN  IF dot = 0 \/ dot = 1 \/ dot = Len(name) THEN name
        ELSE SubSeq(name, 1, dot - 1)

\* Every path a file of the vault has here: the notes the vault starts with
\* and the ones the commands create.
VaultPaths ==
    { <<"F", ".", "m", "d">>, <<"G", ".", "m", "d">>,
      <<"d", "/", "F", ".", "m", "d">>, <<"e", " ", "F", ".", "m", "d">> }

\* The TFile objects of those paths: basename and extension are fields, set
\* from the path when the vault makes the object.
Basenames == [p \in VaultPaths |-> basenameOf(p)]
Extensions == [p \in VaultPaths |-> extensionOf(p)]

\* TFile.extension.
extension(path) ==
    Extensions[path]

\* TFile.basename.
basename(path) ==
    Basenames[path]

\* Vault.getMarkdownFiles: the indices of the markdown files, in enumeration order.
RECURSIVE markdownIndices(_, _)
markdownIndices(fs, i) ==
    IF i > Len(fs) THEN <<>>
    ELSE IF extension(fs[i].path) = <<"m", "d">>
         THEN <<i>> \o markdownIndices(fs, i + 1)
         ELSE markdownIndices(fs, i + 1)

getMarkdownFiles(fs) == markdownIndices(fs, 1)

\* Mutant of vaultCreate: a file that has the path already is overwritten.
vaultCreateOverwrite(fs, dirs, path, data) ==
    IF \E i \in 1..Len(fs) : fs[i].path = path
    THEN [threw |-> FALSE,
          files |-> [i \in 1..Len(fs) |->
                        IF fs[i].path = path THEN [path |-> path, data |-> data]
                        ELSE fs[i]]]
    ELSE IF parentPath(path) \notin dirs
    THEN [threw |-> TRUE, files |-> fs]
    ELSE [threw |-> FALSE, files |-> Append(fs, [path |-> path, data |-> data])]

\* Mutant of vaultCreate: in a folder that does not exist the file is written
\* before the create rejects.
vaultCreatePartial(fs, dirs, path, data) ==
    IF \E i \in 1..Len(fs) : fs[i].path = path
    THEN [threw |-> TRUE, files |-> fs]
    ELSE [threw |-> parentPath(path) \notin dirs,
          files |-> Append(fs, [path |-> path, data |-> data])]

\* Vault.create(path, data): rejects (throws) when a file already has the path
\* or the path's folder does not exist; otherwise the file is added.
vaultCreate(fs, dirs, path, data) ==
    IF \/ \E i \in 1..Len(fs) : fs[i].path = path
       \/ parentPath(path) \notin dirs
    THEN [threw |-> TRUE, files |-> fs]
    ELSE [threw |-> FALSE, files |-> Append(fs, [path |-> path, data |-> data])]

\* Mutant of vaultAppend: the data replaces the content.
vaultAppendOverwrite(fs, i, data) == [fs EXCEPT ![i].data = data]

\* Vault.append(file, data).
vaultAppend(fs, i, data) == [fs EXCEPT ![i].data = @ \o data]

\* Vault.read(file).
vaultRead(fs, i) == fs[i].data

\* ------------------------------------------------------ plugin methods

\* Mutant of getFileByName: basenames are compared ignoring case.
getFileByNameIgnoringCase(fs, name) ==
    LET md   == markdownIndices(fs, 1)
        hits == { k \in 1..Len(md) :
                    toLowerCase(basename(fs[md[k]].path)) = toLowerCase(name) }
    IN  IF hits = {} THEN 0
        ELSE md[CHOOSE k \in hits : \A h \in hits : k <= h]

\* getFileByName: the first markdown file whose basename is name (0: null).
getFileByName(fs, name) ==
    LET md   == getMarkdownFiles(fs)
        hits == { k \in 1..Len(md) : basename(fs[md[k]].path) = name }
    IN  IF hits = {} THEN 0
        ELSE md[CHOOSE k \in hits : \A h \in hits : k <= h]

\* createNote: nothing when a file of that basename exists, else vault.create.
createNote(fs, dirs, name) ==
    LET existing == getFileByName(fs, name) IN
    IF existing # 0
    THEN [threw |-> FALSE, files |-> fs, calls |-> <<"getMarkdownFiles">>]
    ELSE LET c == vaultCreate(fs, dirs, name \o DotMd, <<>>)
         IN  [threw |-> c.threw, files |-> c.files,
              calls |-> <<"getMarkdownFiles", "create">>]

\* appendTo: nothing when no file has that basename, else vault.append of
\* a newline and the text.
appendTo(fs, name, text) ==
    LET file == getFileByName(fs, name) IN
    IF file = 0
    THEN [files |-> fs, calls |-> <<"getMarkdownFiles">>]
    ELSE [files |-> vaultAppend(fs, file, NewLine \o text),
          calls |-> <<"getMarkdownFiles", "append">>]

\* Mutant of readNote: an empty content counts as no note.
readNoteFalsy(fs, name) ==
    LET file == getFileByName(fs, name) IN
    IF file = 0 \/ vaultRead(fs, file) = <<>>
    THEN [found |-> FALSE, content |-> <<>>, calls |-> <<"getMarkdownFiles">>]
    ELSE [found |-> TRUE, content |-> vaultRead(fs, file),
          calls |-> <<"getMarkdownFiles", "read">>]

\* readNote: null (found = FALSE) or the content of the file.
readNote(fs, name) ==
    LET file == getFileByName(fs, name) IN
    IF file = 0
    THEN [found |-> FALSE, content |-> <<>>, calls |-> <<"getMarkdownFiles">>]
    ELSE [found |-> TRUE, content |-> vaultRead(fs, file),
          calls |-> <<"getMarkdownFiles", "read">>]

\* Mutant of searchFrom: the content is compared as it is, case and all.
RECURSIVE searchFromCaseSensitive(_, _, _, _)
searchFromCaseSensitive(fs, md, k, term) ==
    IF k > Len(md) THEN <<>>
    ELSE IF includes(vaultRead(fs, md[k]), term)
         THEN <<basename(fs[md[k]].path)>> \o searchFromCaseSensitive(fs, md, k + 1, term)
         ELSE searchFromCaseSensitive(fs, md, k + 1, term)

\* The loop of searchNotes over files[k..]: the basenames of the files whose
\* lowercased content includes the lowercased term.
RECURSIVE searchFrom(_, _, _, _)
searchFrom(fs, md, k, term) ==
    IF k > Len(md) THEN <<>>
    ELSE IF includes(toLowerCase(vaultRead(fs, md[k])), toLowerCase(term))
         THEN <<basename(fs[md[k]].path)>> \o searchFrom(fs, md, k + 1, term)
         ELSE searchFrom(fs, md, k + 1, term)

searchNotes(fs, term) ==
    LET md == getMarkdownFiles(fs) IN
    [results |-> searchFrom(fs, md, 1, term),
     calls   |-> <<"getMarkdownFiles">> \o [k \in 1..Len(md) |-> "read"]]

\* Mutant of basenames: the names of the files, extension included.
fileNames(fs) ==
    LET md == getMarkdownFiles(fs) IN [k \in 1..Len(md) |-> fileName(fs[md[k]].path)]

\* files.map(f => f.basename) of the list branch.
basenames(fs) ==
    LET md == getMarkdownFiles(fs) IN [k \in 1..Len(md) |-> basename(fs[md[k]].path)]

\* Mutant of lowerOf: the text is lowercased but not trimmed.
lowerOfUntrimmed(text) == toLowerCase(text)

\* const lower = text.toLowerCase().trim()
lowerOf(text) == trim(toLowerCase(text))

\* The branch of handleCommand that text selects, with the arguments it
\* extracts: the if-chain of handleCommand without the vault calls.
dispatch(text) ==
    LET lower == lowerOf(text)
        match == appendMatch(text)
    IN
    IF startsWith(lower, CreateNotePrefix) THEN
        [op |-> "createNote", args |-> <<trim(substring(text, Len(CreateNotePrefix)))>>]
    ELSE IF startsWith(lower, AppendToPrefix) /\ match.matched THEN
        [op |-> "appendTo", args |-> <<match.file, match.content>>]
    ELSE IF startsWith(lower, ReadNotePrefix) THEN
        [op |-> "readNote", args |-> <<trim(substring(text, Len(ReadNotePrefix)))>>]
    ELSE IF lower = ListNotesText THEN
        [op |-> "listNotes", args |-> <<>>]
    ELSE IF startsWith(lower, SearchForPrefix) THEN
        [op |-> "searchNotes", args |-> <<trim(substring(text, Len(SearchForPrefix)))>>]
    ELSE
        [op |-> "unknown", args |-> <<>>]

\* The body of the branch d of handleCommand on vault fs: the string returned
\* (or threw), the vault afterwards, the plugin method called with its
\* arguments, and the vault calls made.
execute(d, fs, dirs) ==
    CASE d.op = "createNote" ->
           LET r == createNote(fs, dirs, d.args[1])
           IN  [result |-> CreatedNoteMsg \o d.args[1], threw |-> r.threw,
                files |-> r.files, op |-> d.op, args |-> d.args, calls |-> r.calls]
      [] d.op = "appendTo" ->
           LET r == appendTo(fs, d.args[1], d.args[2])
           IN  [result |-> AppendedToMsg \o d.args[1], threw |-> FALSE,
                files |-> r.files, op |-> d.op, args |-> d.args, calls |-> r.calls]
      [] d.op = "readNote" ->
           LET r == readNote(fs, d.args[1])
           IN  [result |-> IF r.found THEN r.content ELSE NoteNotFoundMsg,
                threw |-> FALSE, files |-> fs,
                op |-> d.op, args |-> d.args, calls |-> r.calls]
      [] d.op = "listNotes" ->
           [result |-> join(basenames(fs), CommaSpace), threw |-> FALSE, files |-> fs,
            op |-> d.op, args |-> d.args, calls |-> <<"getMarkdownFiles">>]
      [] d.op = "searchNotes" ->
           LET r == searchNotes(fs, d.args[1])
           IN  [result |-> join(r.results, CommaSpace), threw |-> FALSE, files |-> fs,
                op |-> d.op, args |-> d.args, calls |-> r.calls]
      [] OTHER ->
           [result |-> UnknownCommandMsg, threw |-> FALSE, files |-> fs,
            op |-> d.op, args |-> d.args, calls |-> <<>>]

\* ---------------------------------------------------------- command texts

\* The keyword spoken in capitals.
shout(s) ==
    [i \in 1..Len(s) |->
        IF \E k \in 1..26 : LowerLetters[k] = s[i]
        THEN UpperLetters[CHOOSE k \in 1..26 : LowerLetters[k] = s[i]]
        ELSE s[i]]

\* Note titles: two plain ones and one with a slash.
Titles == { <<"F">>, <<"G">>, <<"d", "/", "F">> }

\* What follows "create note ".
CreateArgs == Titles \cup { <<>>, <<" ", "F", " ">> }

\* What follows "read note ": also a title differing in case only.
ReadArgs == CreateArgs \cup { <<"f">> }

\* What follows "search for ".
TermArgs == { <<"x">>, <<"X">>, <<"y">>, <<"F">>, <<>>, <<" ">> }

\* What follows "append to ".
AppendArgs ==
    { <<"F", ":", " ", "x">>, <<"F", ":", "x">>, <<"G", ":", " ", "x">>,
      <<"f", ":", " ", "x">>, <<"F", ":">>, <<"F">>,
      <<"F", " ", ":", " ", "x">>, <<"F", ":", " ", "x", " ">>,
      <<"F", ":", "\n", "x">>, <<"F", ":", " ", "x", "\n", "x">>,
      <<":", "x">> }

\* Texts of each keyword: the keyword as is with every argument, and spoken in
\* capitals, after one and after two leading spaces and before a trailing
\* space with some.
textsOf(kw, args, some) ==
    { kw \o a : a \in args }
      \cup { shout(kw) \o a : a \in some }
      \cup { <<" ">> \o kw \o a : a \in some }
      \cup { <<" ", " ">> \o kw \o a : a \in some }
      \cup { kw \o a \o <<" ">> : a \in some }

OtherTexts ==
    { <<>>, <<"h", "i">>, <<"F">>,
      ListNotesText, shout(ListNotesText), <<" ">> \o ListNotesText \o <<" ">>,
      ListNotesText \o <<" ", "x">>,
      SubSeq(CreateNotePrefix, 1, Len(CreateNotePrefix) - 1),
      SubSeq(SearchForPrefix, 1, Len(SearchForPrefix) - 1),
      <<"a", "p", "p", "e", "n", "d", "t", "o", " ", "F", ":", " ", "x">> }

Texts ==
    textsOf(CreateNotePrefix, CreateArgs, { <<"F">> })
      \cup textsOf(AppendToPrefix, AppendArgs, { <<"F", ":", " ", "x">> })
      \cup textsOf(ReadNotePrefix, ReadArgs, { <<"F">> })
      \cup textsOf(SearchForPrefix, TermArgs, { <<"x">> })
      \cup OtherTexts

\* dispatch over the texts of the model, computed once.
Dispatched == [t \in Texts |-> dispatch(t)]

\* handleCommand(text) on vault fs.
handleCommand(text, fs, dirs) ==
    execute(IF text \in Texts THEN Dispatched[text] ELSE dispatch(text), fs, dirs)

\* ------------------------------------------------------- JSON and HTTP

\* JavaScript values of the request body: [t, s], t the type and s the
\* characters of a string or the digits of a number.
Undefined == [t |-> "undefined", s |-> <<>>]

EmptyString == [t |-> "string", s |-> <<>>]

jsString(s) == [t |-> "string", s |-> s]

\* ToBoolean, as the || of `body?.text || ''` applies it.
truthy(v) ==
    CASE v.t = "string"  -> v.s # <<>>
      [] v.t = "number"  -> v.s # <<"0">>
      [] v.t = "boolean" -> v.s = <<"t", "r", "u", "e">>
      [] v.t = "object"  -> TRUE
      [] OTHER           -> FALSE

\* body?.text: undefined for null and for a value with no text property.
textOf(body) == IF body.kind = "object" THEN body.text ELSE Undefined

\* Mutant of textOrEmpty: ?? in place of ||, so that 0 and false are kept.
textOrEmptyNullish(body) ==
    IF textOf(body).t \in {"undefined", "null"} THEN EmptyString ELSE textOf(body)

\* body?.text || ''
textOrEmpty(body) == IF truthy(textOf(body)) THEN textOf(body) ELSE EmptyString

\* JSON.stringify of the characters of a string.
RECURSIVE jsonEscape(_)
jsonEscape(s) ==
    IF s = <<>> THEN <<>>
    ELSE (CASE Head(s) = "\"" -> <<"\\", "\"">>
            [] Head(s) = "\\" -> <<"\\", "\\">>
            [] Head(s) = "\n" -> <<"\\", "n">>
            [] Head(s) = "\r" -> <<"\\", "r">>
            [] Head(s) = "\t" -> <<"\\", "t">>
            [] OTHER          -> <<Head(s)>>) \o jsonEscape(Tail(s))

\* JSON.stringify({ key: s }) for a string s.
jsonStringify(key, s) ==
    <<"{", "\"">> \o key \o <<"\"", ":", "\"">> \o jsonEscape(s) \o <<"\"", "}">>

ResultKey == <<"r", "e", "s", "u", "l", "t">>

ErrorKey == <<"e", "r", "r", "o", "r">>

BadRequestMsg == <<"b", "a", "d", " ", "r", "e", "q", "u", "e", "s", "t">>

\* A fresh ServerResponse: status 200, no header, nothing written, not ended.
NewResponse == [statusCode |-> 200, contentType |-> "", body |-> <<>>, ended |-> 0]

\* What `await this.handleCommand(text)` yields inside the try block: text is
\* body?.text || ''; a text that is no string has no toLowerCase (TypeError).
runCommand(body, fs, dirs) ==
    LET text == textOrEmpty(body) IN
    IF text.t # "string"
    THEN [result |-> <<>>, threw |-> TRUE, files |-> fs,
          op |-> "none", args |-> <<>>, calls |-> <<>>]
    ELSE handleCommand(text.s, fs, dirs)

\* Mutant of postResponse: res.end() is called in the try block only.
postResponseEndInTry(body, r) ==
    IF body.kind = "malformed" \/ r.threw
    THEN [NewResponse EXCEPT !.statusCode = 400,
                             !.body = jsonStringify(ErrorKey, BadRequestMsg)]
    ELSE [NewResponse EXCEPT !.contentType = "application/json",
                             !.body = jsonStringify(ResultKey, r.result),
                             !.ended = 1]

\* The try/catch of the POST /command branch and the res.end() after it.
postResponse(body, r) ==
    IF body.kind = "malformed" \/ r.threw
    THEN [NewResponse EXCEPT !.statusCode = 400,
                             !.body = jsonStringify(ErrorKey, BadRequestMsg),
                             !.ended = 1]
    ELSE [NewResponse EXCEPT !.contentType = "application/json",
                             !.body = jsonStringify(ResultKey, r.result),
                             !.ended = 1]

\* Mutant of notFoundResponse: the status code is not set.
notFoundWithoutStatus == [NewResponse EXCEPT !.ended = 1]

\* The fall-through of the request listener: 404 and res.end().
notFoundResponse == [NewResponse EXCEPT !.statusCode = 404, !.ended = 1]

\* No call of handleCommand.
NotCalled == [called |-> FALSE, result |-> <<>>, threw |-> FALSE,
              op |-> "none", args |-> <<>>, calls |-> <<>>]

\* ------------------------------------------------------------- requests

\* Values of the text property that are no string.
NonStrings ==
    { Undefined, [t |-> "null", s |-> <<>>],
      [t |-> "number", s |-> <<"0">>], [t |-> "number", s |-> <<"5">>],
      [t |-> "boolean", s |-> <<"t", "r", "u", "e">>],
      [t |-> "boolean", s |-> <<"f", "a", "l", "s", "e">>],
      [t |-> "object", s |-> <<>>] }

\* Request bodies: text that JSON.parse rejects, the JSON null, a JSON number,
\* string or boolean, and JSON objects by the value of their text property.
Bodies ==
    { [kind |-> k, text |-> Undefined] : k \in {"malformed", "null", "primitive"} }
      \cup { [kind |-> "object", text |-> v] : v \in NonStrings }
      \cup { [kind |-> "object", text |-> jsString(t)] : t \in Texts }

Methods == {"POST", "GET"}

Urls == {"/command", "/command/", "/"}

NoBody == [kind |-> "malformed", text |-> Undefined]

NoRequest == [method |-> "", url |-> "", body |-> NoBody]

\* Vaults the plugin may be loaded on.
InitPaths == { t \o DotMd : t \in { <<"F">>, <<"G">>, <<"d", "/", "F">> } }

InitData == { <<>>, <<"X">> }

InitFile == [path : InitPaths, data : InitData]

InitVaults ==
    { <<>> } \cup { <<a>> : a \in InitFile }
      \cup { v \in { <<a, b>> : a \in InitFile, b \in InitFile } : v[1].path # v[2].path }

\* The root folder is the empty path.
Root == <<>>

InitFolders == { {Root}, {Root, <<"d">>} }

\* serverPort values stored by the host (loadData).
DefaultServerPort == 27123

DEFAULT_SETTINGS == [serverPort |-> DefaultServerPort]

\* What loadData yields: null, or the settings object saved before.
SavedData == { [saved |-> FALSE, serverPort |-> 0], [saved |-> TRUE, serverPort |-> 8080] }

\* Object.assign({}, defaults, data).
objectAssign(defaults, data) ==
    IF data.saved THEN [serverPort |-> data.serverPort] ELSE defaults

\* ----------------------------------------------------- the setting tab

Digits == <<"0", "1", "2", "3", "4", "5", "6", "7", "8", "9">>

isDigit(c) == \E d \in 1..10 : Digits[d] = c

digitValue(c) == (CHOOSE d \in 1..10 : Digits[d] = c) - 1

\* The number of digits s starts with.
RECURSIVE leadingDigits(_)
leadingDigits(s) ==
    IF s # <<>> /\ isDigit(Head(s)) THEN 1 + leadingDigits(Tail(s)) ELSE 0

\* The mathematical value of a sequence of decimal digits.
RECURSIVE decimalValue(_)
decimalValue(ds) ==
    IF ds = <<>> THEN 0
    ELSE 10 * decimalValue(SubSeq(ds, 1, Len(ds) - 1)) + digitValue(ds[Len(ds)])

\* parseInt(value, 10): leading white space is skipped, a sign is taken, then
\* the digits as far as they go; NaN when there is none. What follows the
\* digits is ignored.
parseInt(value) ==
    LET t    == substring(value, leadingSpaces(value))
        sign == IF t # <<>> /\ t[1] = "-" THEN -1 ELSE 1
        u    == IF t # <<>> /\ t[1] \in {"+", "-"} THEN Tail(t) ELSE t
        n    == leadingDigits(u)
    IN  IF n = 0 THEN [nan |-> TRUE, num |-> 0]
        ELSE [nan |-> FALSE, num |-> sign * decimalValue(SubSeq(u, 1, n))]

\* Values of the port text field that onChange is called with.
PortTexts ==
    { <<"8", "0", "8", "0">>, <<"8", "0">>, <<"8", "x">>, <<"x", "8">>, <<"x">>,
      <<>>, <<" ", "4", "2">>, <<"-", "5">>, <<"1", ".", "5">> }

\* No change of the text field yet.
NoChange == [made |-> FALSE, value |-> <<>>, before |-> 0, saves |-> <<>>]

\* ------------------------------------------- interleaved listener calls

\* The calls of the request listener, numbered in the order of arrival.
Handlers == 1..MaxHandlers

\* Commands sent while others are being handled.
InterleavedTexts ==
    { CreateNotePrefix \o <<"F">>,
      AppendToPrefix \o <<"F", ":", " ", "x">>,
      AppendToPrefix \o <<"F", ":", " ", "y">>,
      ReadNotePrefix \o <<"F">>,
      SearchForPrefix \o <<"x">> }

\* dispatch over those texts, computed once.
InterleavedDispatched == [t \in InterleavedTexts |-> dispatch(t)]

\* Request bodies sent while others are being handled.
InterleavedBodies ==
    { NoBody } \cup { [kind |-> "object", text |-> jsString(t)] : t \in InterleavedTexts }

\* Vaults the interleaved requests start on.
InterleavedVaults == { <<>>, << [path |-> <<"F">> \o DotMd, data |-> <<"X">>] >> }

\* The branch of handleCommand that the text of a request body selects; none
\* for a body whose text is no string. It depends on the body alone.
dispatched(body) ==
    IF body.kind = "malformed" \/ textOrEmpty(body).t # "string"
    THEN [op |-> "none", args |-> <<>>]
    ELSE IF textOrEmpty(body).s \in InterleavedTexts
    THEN InterleavedDispatched[textOrEmpty(body).s]
    ELSE dispatch(textOrEmpty(body).s)

\* A listener call that has not been made: no request, no locals, a fresh
\* response. d is what dispatched yields for the body of the request.
IdleHandler ==
    [pc |-> "idle", req |-> NoRequest, d |-> [op |-> "none", args |-> <<>>],
     op |-> "none", args |-> <<>>,
     file |-> 0, found |-> <<>>, k |-> 0, results |-> <<>>,
     result |-> <<>>, threw |-> FALSE, res |-> NewResponse]

\* handleCommand(text) up to its first await, in listener call c on vault fs:
\* the branch is chosen, and getFileByName or getMarkdownFiles, which do not
\* suspend, have run.
called(c, d, fs) ==
    CASE d.op \in {"createNote", "appendTo", "readNote"} ->
           [c EXCEPT !.pc = d.op, !.op = d.op, !.args = d.args,
                     !.file = getFileByName(fs, d.args[1])]
      [] d.op = "listNotes" ->
           [c EXCEPT !.pc = "respond", !.op = d.op, !.args = d.args,
                     !.result = join(basenames(fs), CommaSpace)]
      [] d.op = "searchNotes" ->
           IF getMarkdownFiles(fs) = <<>>
           THEN [c EXCEPT !.pc = "respond", !.op = d.op, !.args = d.args]
           ELSE [c EXCEPT !.pc = d.op, !.op = d.op, !.args = d.args,
                          !.found = getMarkdownFiles(fs), !.k = 1]
      [] OTHER ->
           [c EXCEPT !.pc = "respond", !.op = d.op, !.args = d.args,
                     !.result = UnknownCommandMsg]

\* One turn of the loop of searchNotes in listener call c: the read of file
\* found[k] completes, its basename is pushed if the content includes the
\* term, and the next read is awaited or the results are joined and returned.
searched(c, fs) ==
    LET i       == c.found[c.k]
        hit     == includes(toLowerCase(vaultRead(fs, i)), toLowerCase(c.args[1]))
        results == IF hit THEN Append(c.results, basename(fs[i].path)) ELSE c.results
    IN  IF c.k < Len(c.found)
        THEN [c EXCEPT !.k = @ + 1, !.results = results]
        ELSE [c EXCEPT !.pc = "respond", !.found = <<>>, !.k = 0, !.results = <<>>,
                       !.result = join(results, CommaSpace)]

\* ---------------------------------------------------------------- state

VARIABLES
    files,      \* the vault: the sequence of files getMarkdownFiles enumerates
    folders,    \* the folders of the vault
    settings,   \* this.settings
    server,     \* this.server: "null", "listening" or "closed"
    loadPc,     \* where onload stands: "start", "loaded", "started", "done"
    unloaded,   \* onunload has been called
    req,        \* the request being answered (NoRequest: none)
    pre,        \* the vault when that request arrived
    ret,        \* what handleCommand did for that request
    res,        \* the response to that request
    change,     \* the last onChange of the port field: the value entered, the
                \* port before it, and what it passed to saveData
    inFlight    \* the calls of the request listener that run interleaved: for
                \* each, its request, the await it stands at, its locals and
                \* its response

\* The state of the setting tab and of the interleaved listener calls, which
\* the actions of Spec leave alone.
others == <<change, inFlight>>

vars == <<files, folders, settings, server, loadPc, unloaded, req, pre, ret, res, others>>

Init ==
    /\ files \in InitVaults
    /\ folders \in InitFolders
    /\ \A i \in 1..Len(files) : parentPath(files[i].path) \in folders
    /\ settings = [serverPort |-> 0]
    /\ server = "null"
    /\ loadPc = "start"
    /\ unloaded = FALSE
    /\ req = NoRequest
    /\ pre = files
    /\ ret = NotCalled
    /\ res = NewResponse
    /\ change = NoChange
    /\ inFlight = [h \in Handlers |-> IdleHandler]

\* loadSettings: Object.assign({}, DEFAULT_SETTINGS, await this.loadData()),
\* loadData yielding null or the settings saved before.
loadSettings ==
    /\ loadPc = "start"
    /\ \E data \in SavedData : settings' = objectAssign(DEFAULT_SETTINGS, data)
    /\ loadPc' = "loaded"
    /\ UNCHANGED <<others, files, folders, server, unloaded, req, pre, ret, res>>

\* startServer: createServer(listener).listen(this.settings.serverPort).
startServer ==
    /\ loadPc = "loaded"
    /\ server' = "listening"
    /\ loadPc' = "started"
    /\ UNCHANGED <<others, files, folders, settings, unloaded, req, pre, ret, res>>

\* The rest of onload: addSettingTab.
addSettingTab ==
    /\ loadPc = "started"
    /\ loadPc' = "done"
    /\ UNCHANGED <<others, files, folders, settings, server, unloaded, req, pre, ret, res>>

\* onunload, which the host may call at any point of onload or after it: close
\* the server if there is one.
onunload ==
    /\ ~unloaded
    /\ unloaded' = TRUE
    /\ server' = IF server = "null" THEN "null" ELSE "closed"
    /\ UNCHANGED <<others, files, folders, settings, loadPc, req, pre, ret, res>>

\* The vault stays within the bounds of the model.
withinBounds(fs) ==
    /\ Len(fs) <= MaxFiles
    /\ \A i \in 1..Len(fs) : Len(fs[i].data) <= MaxData

\* The server accepts a request: it listens, onload has run to its end (a
\* connection is delivered by the event loop, after the continuations of
\* onload that follow listen), and no other request is being answered (Spec
\* handles the requests one at a time).
accepting == server = "listening" /\ loadPc = "done" /\ req = NoRequest

\* The request listener on POST /command: read the body, JSON.parse it, run
\* handleCommand on its text, write the result (or 400 on any throw), end.
postCommand(body) ==
    /\ accepting
    /\ LET r == runCommand(body, files, folders) IN
       /\ body.kind # "malformed" => withinBounds(r.files)
       /\ req' = [method |-> "POST", url |-> "/command", body |-> body]
       /\ pre' = files
       /\ files' = IF body.kind = "malformed" THEN files ELSE r.files
       /\ ret' = IF body.kind = "malformed" THEN NotCalled
                 ELSE [called |-> TRUE, result |-> r.result, threw |-> r.threw,
                       op |-> r.op, args |-> r.args, calls |-> r.calls]
       /\ res' = postResponse(body, r)
    /\ UNCHANGED <<others, folders, settings, server, loadPc, unloaded>>

\* The request listener on any other method or URL: 404, end.
otherRequest(method, url) ==
    /\ accepting
    /\ ~(method = "POST" /\ url = "/command")
    /\ req' = [method |-> method, url |-> url, body |-> NoBody]
    /\ pre' = files
    /\ ret' = NotCalled
    /\ res' = notFoundResponse
    /\ UNCHANGED <<others, files, folders, settings, server, loadPc, unloaded>>

\* The ended response has been sent: the exchange is over and its request and
\* response objects are dropped.
finish ==
    /\ req # NoRequest
    /\ res.ended >= 1
    /\ req' = NoRequest
    /\ pre' = files
    /\ ret' = NotCalled
    /\ res' = NewResponse
    /\ UNCHANGED <<others, files, folders, settings, server, loadPc, unloaded>>

Next ==
    \/ loadSettings
    \/ startServer
    \/ addSettingTab
    \/ onunload
    \/ \E body \in Bodies : postCommand(body)
    \/ \E method \in Methods, url \in Urls : otherRequest(method, url)
    \/ finish

Spec == Init /\ [][Next]_vars

\* onChange of the port text field: the port is set and saved when parseInt
\* of the value is a number. The tab is there once addSettingTab has run.
onChange(value) ==
    /\ loadPc = "done"
    /\ LET num == parseInt(value) IN
       /\ settings' = IF num.nan THEN settings
                      ELSE [settings EXCEPT !.serverPort = num.num]
       /\ change' = [made |-> TRUE, value |-> value, before |-> settings.serverPort,
                     saves |-> IF num.nan THEN <<>> ELSE << settings' >>]
    /\ UNCHANGED <<files, folders, server, loadPc, unloaded, req, pre, ret, res, inFlight>>

\* The plugin's life cycle and its setting tab.
SettingsNext ==
    \/ loadSettings
    \/ startServer
    \/ addSettingTab
    \/ onunload
    \/ \E value \in PortTexts : onChange(value)

SettingsSpec == Init /\ [][SettingsNext]_vars

\* The plugin loaded and listening, no request received yet.
InterleavedInit ==
    /\ files \in InterleavedVaults
    /\ folders = {Root}
    /\ settings = DEFAULT_SETTINGS
    /\ server = "listening"
    /\ loadPc = "done"
    /\ unloaded = FALSE
    /\ req = NoRequest
    /\ pre = files
    /\ ret = NotCalled
    /\ res = NewResponse
    /\ change = NoChange
    /\ inFlight = [h \in Handlers |-> IdleHandler]

\* What the steps of the listener calls leave alone, the vault aside.
aside == <<folders, settings, server, loadPc, unloaded, req, pre, ret, res, change>>

\* The next listener call is made.
arrives(h) ==
    /\ server = "listening" /\ loadPc = "done"
    /\ inFlight[h].pc = "idle"
    /\ \A g \in 1..(h - 1) : inFlight[g].pc # "idle"

\* The listener is called with a POST /command and awaits the chunks of the
\* request body.
receiveCommand(h, body) ==
    /\ arrives(h)
    /\ inFlight' = [inFlight EXCEPT ![h] =
                       [IdleHandler EXCEPT !.pc = "body",
                                           !.req = [method |-> "POST", url |-> "/command",
                                                    body |-> body],
                                           !.d = dispatched(body)]]
    /\ UNCHANGED <<files, aside>>

\* The listener is called with any other request: 404, end.
receiveOther(h, method, url) ==
    /\ arrives(h)
    /\ ~(method = "POST" /\ url = "/command")
    /\ inFlight' = [inFlight EXCEPT ![h] =
                       [IdleHandler EXCEPT !.pc = "ended",
                                           !.req = [method |-> method, url |-> url,
                                                    body |-> NoBody],
                                           !.res = notFoundResponse]]
    /\ UNCHANGED <<files, aside>>

\* The body has been read: JSON.parse and body?.text || '', then
\* handleCommand up to its first await; what they throw is caught, answered
\* 400 and the response ended.
parsed(h) ==
    /\ inFlight[h].pc = "body"
    /\ LET c    == inFlight[h]
           body == c.req.body
           text == textOrEmpty(body)
       IN  inFlight' = [inFlight EXCEPT ![h] =
               IF body.kind = "malformed" \/ text.t # "string"
               THEN [c EXCEPT !.pc = "ended", !.threw = TRUE,
                              !.res = postResponse(body, [threw |-> TRUE, result |-> <<>>])]
               ELSE called(c, c.d, files)]
    /\ UNCHANGED <<files, aside>>

\* createNote after its await of getFileByName: return if a file was found,
\* else vault.create, which may reject.
created(h) ==
    /\ inFlight[h].pc = "createNote"
    /\ LET c == inFlight[h]
           r == IF c.file # 0 THEN [threw |-> FALSE, files |-> files]
                ELSE vaultCreate(files, folders, c.args[1] \o DotMd, <<>>)
       IN  /\ files' = r.files
           /\ inFlight' = [inFlight EXCEPT ![h] =
                              [c EXCEPT !.pc = "respond", !.file = 0, !.threw = r.threw,
                                        !.result = CreatedNoteMsg \o c.args[1]]]
    /\ UNCHANGED aside

\* An appendTo that writes back the content the note had when the server
\* started listening, followed by a newline and the text.
appendedOverSnapshot(h) ==
    /\ inFlight[h].pc = "appendTo"
    /\ LET c == inFlight[h] IN
       /\ files' = IF c.file = 0 \/ c.file > Len(pre) THEN files
                   ELSE [files EXCEPT ![c.file].data =
                            pre[c.file].data \o NewLine \o c.args[2]]
       /\ inFlight' = [inFlight EXCEPT ![h] =
                          [c EXCEPT !.pc = "respond", !.file = 0,
                                    !.result = AppendedToMsg \o c.args[1]]]
    /\ UNCHANGED aside

\* appendTo after its await of getFileByName: return if no file was found,
\* else vault.append of a newline and the text to the file found.
appended(h) ==
    /\ inFlight[h].pc = "appendTo"
    /\ LET c == inFlight[h] IN
       /\ files' = IF c.file = 0 THEN files
                   ELSE vaultAppend(files, c.file, NewLine \o c.args[2])
       /\ inFlight' = [inFlight EXCEPT ![h] =
                          [c EXCEPT !.pc = "respond", !.file = 0,
                                    !.result = AppendedToMsg \o c.args[1]]]
    /\ UNCHANGED aside

\* readNote after its await of getFileByName: null if no file was found, else
\* vault.read of the file found.
wasRead(h) ==
    /\ inFlight[h].pc = "readNote"
    /\ LET c == inFlight[h] IN
       inFlight' = [inFlight EXCEPT ![h] =
                       [c EXCEPT !.pc = "respond", !.file = 0,
                                 !.result = IF c.file = 0 THEN NoteNotFoundMsg
                                            ELSE vaultRead(files, c.file)]]
    /\ UNCHANGED <<files, aside>>

\* searchNotes: one read of its loop completes.
wasSearched(h) ==
    /\ inFlight[h].pc = "searchNotes"
    /\ inFlight' = [inFlight EXCEPT ![h] = searched(inFlight[h], files)]
    /\ UNCHANGED <<files, aside>>

\* handleCommand has returned or thrown: the result or 400 is written and the
\* response ended.
responded(h) ==
    /\ inFlight[h].pc = "respond"
    /\ LET c == inFlight[h] IN
       inFlight' = [inFlight EXCEPT ![h] =
                       [c EXCEPT !.pc = "ended",
                                 !.res = postResponse(c.req.body,
                                                      [threw |-> c.threw, result |-> c.result])]]
    /\ UNCHANGED <<files, aside>>

\* The listener calls, each running from one await to the next.
InterleavedNext ==
    \E h \in Handlers :
        \/ \E body \in InterleavedBodies : receiveCommand(h, body)
        \/ receiveOther(h, "GET", "/command")
        \/ parsed(h)
        \/ created(h)
        \/ appended(h)
        \/ wasRead(h)
        \/ wasSearched(h)
        \/ responded(h)

Interleaved == InterleavedInit /\ [][InterleavedNext]_vars

\* Every await of a listener call completes: the body stream ends and every
\* vault operation settles.
Completion ==
    \A h \in Handlers :
        /\ WF_vars(parsed(h))
        /\ WF_vars(created(h))
        /\ WF_vars(appended(h))
        /\ WF_vars(wasRead(h))
        /\ WF_vars(wasSearched(h))
        /\ WF_vars(responded(h))

FairInterleaved == Interleaved /\ Completion

\* ---------------------------------------------------------- properties

\* The request being answered is POST /command with the JSON body {"text": t}.
commandText(t) ==
    req = [method |-> "POST", url |-> "/command",
           body |-> [kind |-> "object", text |-> jsString(t)]]

\* The request being answered is POST /command with a string as its body's text.
isCommand == req.method = "POST" /\ req.body.kind = "object" /\ req.body.text.t = "string"

\* The text of that request.
theText == req.body.text.s

\* A note titled T exists in vault fs.
noteNamed(fs, T) == \E i \in 1..Len(fs) : basename(fs[i].path) = T

\* The first note titled T in the enumeration of vault fs.
theNote(fs, T) ==
    CHOOSE i \in 1..Len(fs) :
        basename(fs[i].path) = T /\ \A j \in 1..(i - 1) : basename(fs[j].path) # T

\* Every title of vault fs, in enumeration order.
allTitles(fs) == [i \in 1..Len(fs) |-> basename(fs[i].path)]

\* A keyword as is and in capitals.
spoken(kw) == { kw, shout(kw) }

\* The texts 'create note T', by title.
CreateCases == { [text |-> kw \o T, T |-> T] : kw \in spoken(CreateNotePrefix), T \in Titles }

\* C1 (as claimed): for any vault and any title T, 'create note T' returns
\* exactly 'created note T'; when no note T existed a note T with empty content
\* exists afterwards, when one existed the vault is unchanged; executing the
\* command a second time yields the same vault and the same result.
C1_CreateAnyTitle ==
    \A c \in CreateCases :
        (isCommand /\ theText = c.text) =>
            /\ ret.called /\ ~ret.threw /\ ret.result = CreatedNoteMsg \o c.T
            /\ ~noteNamed(pre, c.T) =>
                  \E i \in 1..Len(files) :
                      basename(files[i].path) = c.T /\ files[i].data = <<>>
            /\ noteNamed(pre, c.T) => files = pre
            /\ LET again == handleCommand(c.text, files, folders)
               IN  ~again.threw /\ again.files = files /\ again.result = ret.result

\* The cases of titles that are a file name: no path separator in them.
PlainCreateCases == { c \in CreateCases : \A i \in 1..Len(c.T) : c.T[i] # "/" }

\* C1 (what holds): the same for the titles without a path separator, the new
\* note being added after the notes there were.
C1_CreatePlainTitle ==
    \A c \in PlainCreateCases :
        (isCommand /\ theText = c.text) =>
            /\ ret.called /\ ~ret.threw /\ ret.result = CreatedNoteMsg \o c.T
            /\ ~noteNamed(pre, c.T) =>
                  files = Append(pre, [path |-> c.T \o DotMd, data |-> <<>>])
            /\ noteNamed(pre, c.T) => files = pre
            /\ LET again == handleCommand(c.text, files, folders)
               IN  ~again.threw /\ again.files = files /\ again.result = ret.result

\* C1: a note was created by the command.
C1_Witness_Created ==
    /\ commandText(CreateNotePrefix \o <<"G">>)
    /\ ~noteNamed(pre, <<"G">>) /\ noteNamed(files, <<"G">>)

\* The texts 'append to F: C', with and without the space after the colon, by
\* note and content.
AppendCases ==
    { [text |-> kw \o F \o sep \o C, F |-> F, C |-> C] :
        kw \in spoken(AppendToPrefix), F \in { <<"F">>, <<"G">>, <<"f">> },
        sep \in { <<":", " ">>, <<":">> }, C \in { <<"x">>, <<"x", " ">> } }

\* C2: for an existing note F with content A, after 'append to F: C' the
\* content of F is A, a newline, C; every other note is unchanged; the result
\* is 'appended to F'.
C2_AppendExisting ==
    \A c \in AppendCases :
        (isCommand /\ theText = c.text /\ noteNamed(pre, c.F)) =>
            /\ ret.called /\ ~ret.threw /\ ret.result = AppendedToMsg \o c.F
            /\ Len(files) = Len(pre)
            /\ \A i \in 1..Len(pre) :
                  files[i] = IF i = theNote(pre, c.F)
                             THEN [path |-> pre[i].path,
                                   data |-> pre[i].data \o <<"\n">> \o c.C]
                             ELSE pre[i]

\* C2: text was appended to a note that had content, beside another note.
C2_Witness ==
    /\ commandText(AppendToPrefix \o <<"F", ":", " ", "x">>)
    /\ Len(pre) = 2 /\ noteNamed(pre, <<"F">>)
    /\ pre[theNote(pre, <<"F">>)].data = <<"X">>
    /\ files[theNote(pre, <<"F">>)].data = <<"X", "\n", "x">>

\* C3: an append command naming a title no note has creates no note, changes
\* no content, signals no error, and still answers 'appended to <title>'.
C3_AppendMissing ==
    \A c \in AppendCases :
        (isCommand /\ theText = c.text /\ ~noteNamed(pre, c.F)) =>
            /\ files = pre
            /\ ret.called /\ ~ret.threw /\ ret.result = AppendedToMsg \o c.F
            /\ res.statusCode = 200
            /\ res.body = jsonStringify(ResultKey, AppendedToMsg \o c.F)

\* C3: an append named a title differing in case only from the note there is.
C3_Witness ==
    /\ commandText(AppendToPrefix \o <<"f", ":", " ", "x">>)
    /\ noteNamed(pre, <<"F">>) /\ ~noteNamed(pre, <<"f">>)
    /\ res.ended = 1

\* The texts 'read note T', by title.
ReadCases ==
    { [text |-> kw \o T, T |-> T] :
        kw \in spoken(ReadNotePrefix), T \in Titles \cup { <<"f">> } }

\* C4: 'read note T' returns exactly the content of the note titled T, the
\* empty content included, and 'note not found' when there is none; the vault
\* is not modified.
C4_Read ==
    \A c \in ReadCases :
        (isCommand /\ theText = c.text) =>
            /\ files = pre
            /\ ret.called /\ ~ret.threw
            /\ ret.result = IF noteNamed(pre, c.T) THEN pre[theNote(pre, c.T)].data
                            ELSE NoteNotFoundMsg
            /\ res.statusCode = 200

\* C4: a note with empty content was read.
C4_Witness_Empty ==
    /\ commandText(ReadNotePrefix \o <<"F">>)
    /\ noteNamed(pre, <<"F">>) /\ pre[theNote(pre, <<"F">>)].data = <<>>
    /\ ret.result = <<>>

\* s contains t ignoring letter case: some slice of s equals t letter by
\* letter up to case.
containsIgnoringCase(s, t) ==
    \E a \in 0..Len(s) :
        /\ a + Len(t) <= Len(s)
        /\ \A k \in 1..Len(t) : toLowerChar(s[a + k]) = toLowerChar(t[k])

\* The titles of the notes of fs whose content contains term, in enumeration order.
RECURSIVE matchingTitles(_, _)
matchingTitles(fs, term) ==
    IF fs = <<>> THEN <<>>
    ELSE (IF containsIgnoringCase(Head(fs).data, term)
          THEN <<basename(Head(fs).path)>> ELSE <<>>) \o matchingTitles(Tail(fs), term)

\* The titles separated by ", ".
RECURSIVE commaSeparated(_)
commaSeparated(titles) ==
    IF titles = <<>> THEN <<>>
    ELSE IF Tail(titles) = <<>> THEN Head(titles)
    ELSE Head(titles) \o <<",", " ">> \o commaSeparated(Tail(titles))

\* The texts 'search for X', by term.
SearchCases ==
    { [text |-> kw \o X, X |-> X] :
        kw \in spoken(SearchForPrefix), X \in { <<"x">>, <<"X">>, <<"y">>, <<"F">> } }

\* C5: 'search for X' returns the titles of exactly the notes whose content
\* (not title) contains X ignoring letter case, in enumeration order, joined
\* by ', '.
C5_Search ==
    \A c \in SearchCases :
        (isCommand /\ theText = c.text) =>
            /\ files = pre
            /\ ret.called /\ ~ret.threw
            /\ ret.result = commaSeparated(matchingTitles(pre, c.X))

\* C5: a search in lower case found a note by its content in capitals, and
\* left out a note without the term.
C5_Witness ==
    /\ commandText(SearchForPrefix \o <<"x">>)
    /\ Len(pre) = 2
    /\ pre[1].data = <<>> /\ pre[2].data = <<"X">>
    /\ ret.result = basename(pre[2].path)

\* A keyword followed by nothing or by white space only.
bareKeyword(kw) == { k \o w : k \in spoken(kw), w \in { <<>>, <<" ">> } }

BareSearch == bareKeyword(SearchForPrefix)

BareCreate == bareKeyword(CreateNotePrefix)

BareRead == bareKeyword(ReadNotePrefix)

\* C6 (as claimed): 'search for ' followed by nothing or white space is
\* handled as searchNotes with the empty term and answers every title joined
\* by ', '; an empty title after 'create note ' or 'read note ' is passed to
\* createNote or readNote, not turned into 'unknown command'.
C6_EmptyArgumentPassed ==
    /\ (isCommand /\ theText \in BareSearch) =>
          /\ ret.op = "searchNotes" /\ ret.args = << <<>> >>
          /\ ret.result = commaSeparated(allTitles(pre))
    /\ (isCommand /\ theText \in BareCreate) => ret.op = "createNote"
    /\ (isCommand /\ theText \in BareRead) => ret.op = "readNote"

\* C6 (amended): searchNotes given the empty term returns every title, but no
\* text reaches it, createNote or readNote with an empty argument: a keyword
\* followed by nothing or by white space only is answered 'unknown command'
\* and no vault call is made.
C6_BareKeywordUnknown ==
    /\ searchNotes(files, <<>>).results = allTitles(files)
    /\ (isCommand /\ ret.op \in {"createNote", "readNote", "searchNotes"}) =>
          ret.args[1] # <<>>
    /\ (isCommand /\ theText \in BareSearch \cup BareCreate \cup BareRead) =>
          /\ ret.called /\ ~ret.threw
          /\ ret.op = "unknown" /\ ret.result = UnknownCommandMsg
          /\ ret.calls = <<>> /\ files = pre
          /\ res.statusCode = 200

\* C6: 'search for ' with nothing after it was answered on a vault with notes.
C6_Witness ==
    /\ commandText(SearchForPrefix)
    /\ Len(pre) = 2
    /\ res.ended = 1 /\ ret.result = UnknownCommandMsg

\* Texts that are 'list notes' once lowercased and trimmed.
ListTexts == spoken(ListNotesText) \cup { <<" ">> \o ListNotesText \o <<" ">> }

\* The JSON text {"result":"s"} of a string s without characters to escape.
resultJson(s) ==
    <<"{", "\"", "r", "e", "s", "u", "l", "t", "\"", ":", "\"">> \o s \o <<"\"", "}">>

\* C7: a text that is 'list notes' once lowercased and trimmed returns every
\* title of the vault in enumeration order joined by ', ' (the empty string
\* for no notes), and POST /command answers 200 with {"result": that string}.
C7_ListNotes ==
    (isCommand /\ theText \in ListTexts) =>
        /\ files = pre
        /\ ret.called /\ ~ret.threw
        /\ ret.result = commaSeparated(allTitles(pre))
        /\ res.statusCode = 200 /\ res.contentType = "application/json"
        /\ res.body = resultJson(commaSeparated(allTitles(pre)))
        /\ res.ended = 1

\* C7: two notes G and F were listed as {"result":"G, F"}.
C7_Witness ==
    /\ commandText(ListNotesText)
    /\ Len(pre) = 2
    /\ res.body = resultJson(<<"G", ",", " ", "F">>)

\* The lowercased, trimmed text starts with no keyword and is not 'list notes'.
noKeyword(text) ==
    LET l == trim(toLowerCase(text)) IN
    /\ \A kw \in {CreateNotePrefix, AppendToPrefix, ReadNotePrefix, SearchForPrefix} :
          ~(Len(l) >= Len(kw) /\ SubSeq(l, 1, Len(kw)) = kw)
    /\ l # ListNotesText

\* The texts of the model with no keyword.
KeywordlessTexts == { t \in Texts : noKeyword(t) }

\* Texts starting with 'append to ' that do not have the shape of the
\* pattern: no colon, nothing after the colon, nothing before it, a second
\* line in the content, a space before the keyword.
ShapelessAppends ==
    { kw \o a : kw \in spoken(AppendToPrefix),
                a \in { <<"F">>, <<"F", ":">>, <<":", "x">>,
                        <<"F", ":", " ", "x", "\n", "x">> } }
      \cup { <<" ">> \o AppendToPrefix \o <<"F", ":", " ", "x">> }

\* C8: a text with no keyword, and an 'append to ' text the pattern does not
\* match, return exactly 'unknown command', raise no error and perform no
\* vault create or append.
C8_Unknown ==
    (isCommand /\ theText \in KeywordlessTexts \cup ShapelessAppends) =>
        /\ ret.called /\ ~ret.threw
        /\ ret.result = UnknownCommandMsg
        /\ \A k \in 1..Len(ret.calls) : ret.calls[k] \notin {"create", "append"}
        /\ files = pre
        /\ res.statusCode = 200
        /\ res.body = resultJson(UnknownCommandMsg)

\* C8: an 'append to ' text with a second line of content was answered
\* 'unknown command' while the note it names exists.
C8_Witness ==
    /\ commandText(AppendToPrefix \o <<"F", ":", " ", "x", "\n", "x">>)
    /\ noteNamed(pre, <<"F">>)
    /\ ret.result = UnknownCommandMsg

\* The JSON text {"error":"bad request"}.
BadRequestJson ==
    <<"{", "\"", "e", "r", "r", "o", "r", "\"", ":", "\"">> \o BadRequestMsg \o <<"\"", "}">>

\* C9 (as claimed): a POST /command is answered 400 {"error":"bad request"} if
\* and only if its body is not parseable JSON; every body that parses is
\* answered 200, application/json, {"result": <string>}, whatever the command
\* or the vault does.
C9_BadRequestIffUnparseable ==
    (req.method = "POST" /\ req.url = "/command") =>
        /\ (res.statusCode = 400 /\ res.body = BadRequestJson)
              <=> req.body.kind = "malformed"
        /\ req.body.kind # "malformed" =>
              /\ res.statusCode = 200 /\ res.contentType = "application/json"
              /\ ret.called /\ res.body = jsonStringify(ResultKey, ret.result)

\* The body's text is a value that is kept by || and is no string.
nonStringText ==
    /\ req.body.kind = "object"
    /\ \/ req.body.text.t = "number" /\ req.body.text.s # <<"0">>
       \/ req.body.text.t = "boolean" /\ req.body.text.s = <<"t", "r", "u", "e">>
       \/ req.body.text.t = "object"

\* The command creates a note whose title no note has, at a path that a file
\* has already or in a folder that does not exist: vault.create rejects.
createRejected ==
    /\ ret.op = "createNote"
    /\ ~noteNamed(pre, ret.args[1])
    /\ \/ \E i \in 1..Len(pre) : pre[i].path = ret.args[1] \o DotMd
       \/ parentPath(ret.args[1] \o DotMd) \notin folders

\* C9 (amended): a POST /command is answered 400 {"error":"bad request"} if
\* and only if its body is not parseable JSON or handling it throws: the text
\* is a truthy value that is no string, or vault.create rejects. Every other
\* body is answered 200, application/json, {"result": <string>}; a missing,
\* null, 0, false or empty text is answered as the empty text.
C9_BadRequestIffThrows ==
    (req.method = "POST" /\ req.url = "/command") =>
        /\ res.ended = 1
        /\ (res.statusCode = 400 /\ res.body = BadRequestJson /\ res.contentType = "")
              <=> (req.body.kind = "malformed" \/ nonStringText \/ createRejected)
        /\ ~(req.body.kind = "malformed" \/ nonStringText \/ createRejected) =>
              /\ res.statusCode = 200 /\ res.contentType = "application/json"
              /\ ret.called /\ ~ret.threw
              /\ res.body = jsonStringify(ResultKey, ret.result)
        /\ (req.body.kind # "malformed" /\ ~nonStringText /\ ~isCommand) =>
              res.body = resultJson(UnknownCommandMsg)

\* C9: a body that parses, {"text": 5}, was answered 400.
C9_Witness ==
    /\ req.method = "POST" /\ req.url = "/command"
    /\ req.body = [kind |-> "object", text |-> [t |-> "number", s |-> <<"5">>]]
    /\ res.statusCode = 400 /\ res.ended = 1

\* C10: a request that is not POST or not for /command is answered 404 with
\* an empty body, without a call of handleCommand or of the vault.
C10_NotFound ==
    (req # NoRequest /\ ~(req.method = "POST" /\ req.url = "/command")) =>
        /\ res.statusCode = 404 /\ res.body = <<>> /\ res.ended = 1
        /\ ~ret.called /\ ret.calls = <<>>
        /\ files = pre

\* C10: a GET /command was answered.
C10_Witness ==
    /\ req.method = "GET" /\ req.url = "/command"
    /\ res.ended = 1

\* The texts of a keyword with an argument, padded with white space: the
\* keyword as is and in capitals, after one and two leading spaces, before a
\* trailing space; op is the plugin method of the keyword.
paddedCases(kw, op, arg) ==
    { [text |-> lead \o k \o arg \o trail, op |-> op, arg |-> arg] :
        k \in spoken(kw), lead \in { <<>>, <<" ">>, <<" ", " ">> },
        trail \in { <<>>, <<" ">> } }

PaddedCases ==
    { c \in paddedCases(CreateNotePrefix, "createNote", <<"F">>)
               \cup paddedCases(ReadNotePrefix, "readNote", <<"F">>)
               \cup paddedCases(SearchForPrefix, "searchNotes", <<"x">>) :
        c.text \in Texts }

\* C11 (as claimed): for a text whose lowercased, trimmed form starts with
\* 'create note ', 'read note ' or 'search for ', whatever the white space
\* around it, the title or term passed on is exactly what follows the keyword
\* in the text, trimmed, in its original letter case.
C11_ArgumentFollowsKeyword ==
    \A c \in PaddedCases :
        (isCommand /\ theText = c.text) =>
            /\ ret.called /\ ret.op = c.op
            /\ ret.args = <<c.arg>>

\* The cases in which the keyword starts the text or follows one space.
AlignedCases ==
    { c \in PaddedCases : c.text[1] # " " \/ c.text[2] # " " }

\* C11 (what holds): the same for the texts with at most one character of
\* white space before the keyword.
C11_ArgumentFollowsAlignedKeyword ==
    \A c \in AlignedCases :
        (isCommand /\ theText = c.text) =>
            /\ ret.called /\ ret.op = c.op
            /\ ret.args = <<c.arg>>

\* s has no white space at its start or at its end.
noOuterSpace(s) == s = <<>> \/ (s[1] \notin WhiteSpace /\ s[Len(s)] \notin WhiteSpace)

\* C12 (as claimed): every argument handed to createNote, appendTo, readNote or
\* searchNotes has no leading and no trailing white space, the file and the
\* content captured by the append pattern included.
C12_ArgumentsTrimmed ==
    (isCommand /\ ret.called /\ ret.op \in {"createNote", "appendTo", "readNote", "searchNotes"}) =>
        \A k \in 1..Len(ret.args) : noOuterSpace(ret.args[k])

\* C12 (what holds): the title of createNote and readNote and the term of
\* searchNotes have no outer white space; the content captured by the append
\* pattern has no leading white space unless it is white space only.
C12_TrimmedButAppend ==
    /\ (isCommand /\ ret.called /\ ret.op \in {"createNote", "readNote", "searchNotes"}) =>
          noOuterSpace(ret.args[1])
    /\ (isCommand /\ ret.called /\ ret.op = "appendTo") =>
          \/ ret.args[2][1] \notin WhiteSpace
          \/ \A i \in 1..Len(ret.args[2]) : ret.args[2][i] \in WhiteSpace

\* The text 'append to F: C' for a content C of two lines.
TwoLineAppend == AppendToPrefix \o <<"F", ":", " ", "x", "\n", "x">>

\* C13 (as claimed): 'append to F: C' with a newline inside C is handled as
\* appendTo with the whole of C, newline included, as the content: not as an
\* unknown command and not cut at the first line.
C13_MultilineContentAppended ==
    (isCommand /\ theText = TwoLineAppend) =>
        /\ ret.called /\ ret.op = "appendTo"
        /\ ret.args = << <<"F">>, <<"x", "\n", "x">> >>
        /\ ret.result = AppendedToMsg \o <<"F">>
        /\ noteNamed(pre, <<"F">>) =>
              files[theNote(pre, <<"F">>)].data
                  = pre[theNote(pre, <<"F">>)].data \o <<"\n", "x", "\n", "x">>

\* C13 (what holds): a newline right after the colon is taken by the white
\* space of the pattern and the content is the line after it; a newline inside
\* or after the content makes the text an unknown command and nothing is
\* appended.
C13_NewlineOnlyAfterColon ==
    /\ (isCommand /\ theText = AppendToPrefix \o <<"F", ":", "\n", "x">>) =>
          ret.op = "appendTo" /\ ret.args = << <<"F">>, <<"x">> >>
    /\ (isCommand /\ theText = TwoLineAppend) =>
          ret.op = "unknown" /\ ret.result = UnknownCommandMsg /\ files = pre

\* C14 (as claimed): whatever the interleaving of onunload with the steps of
\* onload, once onunload has been called and onload has run to its end the
\* server does not listen.
C14_UnloadedServerStopped ==
    (unloaded /\ loadPc = "done") => server # "listening"

\* C14 (what holds): the server listens only once startServer has run, it is
\* closed only by onunload, and an onunload called after startServer leaves it
\* closed.
C14_ClosedByUnloadAfterStart ==
    /\ server = "listening" => loadPc \in {"started", "done"}
    /\ server = "closed" => unloaded
    /\ (unloaded /\ server = "null") => loadPc \in {"start", "loaded"}

\* The request being answered has failed (400) or was rejected (404).
failed == req # NoRequest /\ res.statusCode \in {400, 404}

\* Commands a later request may carry.
LaterTexts ==
    { ListNotesText, ReadNotePrefix \o <<"F">>, SearchForPrefix \o <<"x">>,
      CreateNotePrefix \o <<"G">>, AppendToPrefix \o <<"F", ":", " ", "x">> }

\* C15: a request answered 400 or 404 leaves the vault as it was and the
\* server listening (unless the plugin is unloaded meanwhile); it is ended
\* once, no vault call is made twice for it, and every later command is
\* handled as on the vault before the request.
C15_FailedRequestFrame ==
    failed =>
        /\ files = pre
        /\ ~unloaded => server = "listening"
        /\ res.ended = 1
        /\ \A a, b \in 1..Len(ret.calls) : ret.calls[a] = ret.calls[b] => a = b
        /\ \A t \in LaterTexts :
              handleCommand(t, files, folders) = handleCommand(t, pre, folders)

\* C15: a create was rejected by the vault, which holds notes, and answered 400.
C15_Witness ==
    /\ failed /\ res.statusCode = 400
    /\ ret.op = "createNote" /\ ret.threw
    /\ Len(pre) = 2 /\ server = "listening"

\* The text is an integer numeral: an optional sign and digits, nothing else
\* but white space around them.
isNumeral(value) ==
    LET t == SubSeq(value, leadingSpaces(value) + 1, Len(value) - trailingSpaces(value))
        u == IF t # <<>> /\ t[1] \in {"+", "-"} THEN Tail(t) ELSE t
    IN  leadingSpaces(value) < Len(value) /\ u # <<>> /\ \A i \in 1..Len(u) : isDigit(u[i])

\* The integer an integer numeral denotes.
numeralValue(value) ==
    LET t == SubSeq(value, leadingSpaces(value) + 1, Len(value) - trailingSpaces(value))
    IN  IF t[1] = "-" THEN 0 - decimalValue(Tail(t))
        ELSE IF t[1] = "+" THEN decimalValue(Tail(t))
        ELSE decimalValue(t)

\* C16 (as claimed): when the port field is changed to a text that is not
\* numeric, serverPort keeps its value and saveSettings is not called;
\* serverPort is changed and saved only when the text is an integer, and then
\* to that integer.
C16_NonNumericIgnored ==
    change.made =>
        IF isNumeral(change.value)
        THEN /\ settings.serverPort = numeralValue(change.value)
             /\ change.saves = << settings >>
        ELSE /\ settings.serverPort = change.before
             /\ change.saves = <<>>

\* C16 (what holds): a text whose first character after white space and a
\* sign is no digit is ignored and nothing is saved; an integer numeral sets
\* and saves its value; any other text sets and saves the number its leading
\* digits denote.
C16_LeadingDigitsDecide ==
    change.made =>
        LET t == substring(change.value, leadingSpaces(change.value))
            u == IF t # <<>> /\ t[1] \in {"+", "-"} THEN Tail(t) ELSE t
        IN  IF u = <<>> \/ ~isDigit(u[1])
            THEN settings.serverPort = change.before /\ change.saves = <<>>
            ELSE /\ change.saves = << settings >>
                 /\ isNumeral(change.value) =>
                       settings.serverPort = numeralValue(change.value)
                 /\ settings.serverPort
                       = (IF t[1] = "-" THEN -1 ELSE 1)
                           * decimalValue(SubSeq(u, 1, leadingDigits(u)))

\* a is a prefix of b.
isPrefix(a, b) == Len(a) <= Len(b) /\ SubSeq(b, 1, Len(a)) = a

\* Listener call h takes the step from the await at pc to its response.
settles(h, pc) == inFlight[h].pc = pc /\ inFlight'[h].pc = "respond"

\* C17: in every step of every interleaving of the listener calls, no note is
\* removed or renamed and every note's content keeps its earlier content as a
\* prefix; a content changes only by an append adding a newline and its text;
\* a new note is empty and is added by a create; a create changes nothing
\* else, however stale its existence check is.
C17_NotesKept ==
    [][/\ Len(files') >= Len(files)
       /\ \A i \in 1..Len(files) :
             /\ files'[i].path = files[i].path
             /\ isPrefix(files[i].data, files'[i].data)
             /\ files'[i].data # files[i].data =>
                   \E h \in Handlers :
                       /\ settles(h, "appendTo")
                       /\ files'[i].data = files[i].data \o <<"\n">> \o inFlight[h].args[2]
       /\ Len(files') > Len(files) =>
             /\ \E h \in Handlers : settles(h, "createNote")
             /\ files' = Append(files, [path |-> files'[Len(files')].path, data |-> <<>>])
       /\ \A h \in Handlers :
             settles(h, "createNote") =>
                 SubSeq(files', 1, Len(files)) = files]_vars

\* C17: a create whose existence check found no note F was rejected after
\* another request had created F and a third had appended to it; what was
\* appended is still there.
C17_Witness ==
    /\ pre = <<>>
    /\ \E h \in Handlers :
          /\ inFlight[h].pc = "ended" /\ inFlight[h].op = "createNote"
          /\ inFlight[h].res.statusCode = 400
    /\ noteNamed(files, <<"F">>)
    /\ files[theNote(files, <<"F">>)].data = <<"\n", "x">>

\* Listener call h has handled 'append to F: <content>' to its end.
appendedTo(h, F) ==
    /\ inFlight[h].pc = "ended"
    /\ inFlight[h].op = "appendTo" /\ inFlight[h].args[1] = F

\* C18: when two appends to the same note, which existed before both, have
\* been handled, however their steps interleaved, and no other append was
\* made, the content of the note is its content before followed by both
\* texts, each after a newline, in one of the two orders.
C18_BothAppendsKept ==
    \A a, b \in Handlers :
        (/\ a < b
         /\ appendedTo(a, <<"F">>) /\ appendedTo(b, <<"F">>)
         /\ noteNamed(pre, <<"F">>)
         /\ \A g \in Handlers \ {a, b} : inFlight[g].op # "appendTo") =>
            LET A  == pre[theNote(pre, <<"F">>)].data
                Ca == <<"\n">> \o inFlight[a].args[2]
                Cb == <<"\n">> \o inFlight[b].args[2]
            IN  /\ Len(files) = Len(pre)
                /\ files[theNote(pre, <<"F">>)].data \in { A \o Ca \o Cb, A \o Cb \o Ca }
                /\ inFlight[a].res.statusCode = 200 /\ inFlight[b].res.statusCode = 200

\* C18: the append that arrived first was written second: 'x' arrived before
\* 'y' and the note ends with y, then x.
C18_Witness ==
    /\ appendedTo(1, <<"F">>) /\ inFlight[1].args[2] = <<"x">>
    /\ appendedTo(2, <<"F">>) /\ inFlight[2].args[2] = <<"y">>
    /\ \A g \in Handlers \ {1, 2} : inFlight[g].pc = "idle"
    /\ pre = << [path |-> <<"F", ".", "m", "d">>, data |-> <<"X">>] >>
    /\ files[1].data = <<"X", "\n", "y", "\n", "x">>

\* The response of an ended listener call is the one of its path: 404 and no
\* body for a request that is no POST /command, 400 and the error for a body
\* that does not parse or a command that threw, else 200 and the result.
answered(c) ==
    IF ~(c.req.method = "POST" /\ c.req.url = "/command")
    THEN c.res.statusCode = 404 /\ c.res.body = <<>>
    ELSE IF c.req.body.kind = "malformed" \/ c.threw
    THEN c.res.statusCode = 400 /\ c.res.body = BadRequestJson
    ELSE /\ c.res.statusCode = 200 /\ c.res.contentType = "application/json"
         /\ c.res.body = jsonStringify(ResultKey, c.result)

\* C19: every listener call ends its response exactly once, with the answer
\* of its path, and writes nothing before it has the answer nor after the
\* end; when the body stream and every vault operation complete, every
\* request received is eventually answered.
C19_AnsweredOnce ==
    /\ [](\A h \in Handlers :
              /\ inFlight[h].res.ended <= 1
              /\ inFlight[h].pc = "ended" <=> inFlight[h].res.ended = 1
              /\ inFlight[h].res.ended = 0 => inFlight[h].res = NewResponse
              /\ inFlight[h].res.ended = 1 => answered(inFlight[h]))
    /\ [][\A h \in Handlers :
              inFlight[h].res.ended = 1 => inFlight'[h] = inFlight[h]]_vars
    /\ \A h \in Handlers :
          (inFlight[h].pc # "idle") ~> (inFlight[h].res.ended = 1)

\* C19: three requests were answered, one 200, one 400, one 404.
C19_Witness ==
    /\ \A h \in Handlers : inFlight[h].res.ended = 1
    /\ \A status \in {200, 400, 404} :
          \E h \in Handlers : inFlight[h].res.statusCode = status

====
